---- MODULE Spec2Model ----
(***************************************************************************)
(* The particle-life engine of part.Dynamics: applyRule (pairwise force,   *)
(* damped velocity update, position advance, reflecting boundary) and the  *)
(* animate tick that runs six rule applications in a fixed order.          *)
(*                                                                         *)
(* Both scripts are modelled: Life-sim.3D (three axes, cutoff 100) and     *)
(* life-sim (two axes, cutoff 80); the state variable `variant` says which *)
(* one runs.                                                               *)
(*                                                                         *)
(* Numbers.  The scripts compute with IEEE doubles.  Here every stored     *)
(* number (coordinate, velocity, force, coefficient) is an integer count   *)
(* of quanta of 1/Unit world units, and each arithmetic result is rounded  *)
(* to the nearest quantum (ties to even), as a double operation rounds to  *)
(* the nearest double.  Squared distances are exact integers in quanta^2.  *)
(***************************************************************************)
EXTENDS Integers, Sequences, FiniteSets, TLC

VARIABLES
    variant,            \* "3D" (Life-sim.3D/script.js) or "2D" (life-sim/script.js)
    particleGroups,     \* group name -> sequence of particles [pos, vel]
    positionAttribute,  \* the render buffer written by updateGeometryAttributes
    steps,              \* handler invocations so far (bounded)
    calls,              \* history: the applyRule calls of the last handler invocation
    initial,            \* history: particleGroups as created
    zeroOnly            \* history: every applyRule call so far had g = 0

vars == <<variant, particleGroups, positionAttribute, steps, calls, initial, zeroOnly>>

-----------------------------------------------------------------------------
(* Bounds of the model *)

\* particles per group (PARTICLE_COUNT_PER_GROUP is 1000 in the scripts)
PARTICLE_COUNT_PER_GROUP == 2

\* animate ticks explored by Spec
MaxTicks == 2

\* applyRule calls explored by SpecRule
MaxCalls == 2

-----------------------------------------------------------------------------
(* Numbers *)

\* quanta per world unit: the resolution of every stored number
Unit == 40

\* a / b rounded to the nearest integer, ties to even (b > 0)
RoundDiv(a, b) ==
    LET q == a \div b
        r == a % b
    IN  IF 2 * r < b THEN q
        ELSE IF 2 * r > b THEN q + 1
        ELSE IF q % 2 = 0 THEN q ELSE q + 1

\* the decimal literal n/d (0.1 is Fixed(1, 10)) in quanta
Fixed(n, d) == RoundDiv(n * Unit, d)

\* the product of two fixed-point numbers
Mul(a, b) == RoundDiv(a * b, Unit)

Abs(a) == IF a < 0 THEN -a ELSE a

Max(a, b) == IF a >= b THEN a ELSE b

Min(a, b) == IF a <= b THEN a ELSE b

RECURSIVE SqrtSearch(_, _, _)
\* the largest r in lo..hi with r * r <= n
SqrtSearch(n, lo, hi) ==
    IF lo = hi THEN lo
    ELSE LET mid == (lo + hi + 1) \div 2
         IN  IF mid * mid <= n THEN SqrtSearch(n, mid, hi)
             ELSE SqrtSearch(n, lo, mid - 1)

\* Math.sqrt of a squared distance (quanta^2), rounded to the nearest quantum
Sqrt(n) ==
    LET r == SqrtSearch(n, 0, 46340)
    IN  IF n - r * r > r THEN r + 1 ELSE r

-----------------------------------------------------------------------------
(* Simulation parameters *)

WORLD_SIZE == 500

\* a damping factor of 1: no damping
NoDamping == Fixed(1, 1)

DAMPING_FACTOR == Fixed(1, 2)

halfWorldSize == Fixed(WORLD_SIZE, 2)

Variants == {"3D", "2D"}

GroupNames == {"yellow", "red", "green"}

\* A position or velocity is <<x, y, z>>.  The 2-D script has no z: its
\* particles carry z = 0 and vz = 0, which nothing reads or writes.
Axes == 1 .. 3

HasZ == variant = "3D"

\* the interaction radius: distSq < 100 * 100 (3-D), distSq < 80 * 80 (2-D)
Cutoff == IF variant = "3D" THEN 100 ELSE 80

CutoffSq == (Cutoff * Unit) * (Cutoff * Unit)

Zero == <<0, 0, 0>>

-----------------------------------------------------------------------------
(* Particle creation *)

createParticle(pos) == [pos |-> pos, vel |-> Zero]

\* a value randomCoord can return: (Math.random() - 0.5) * WORLD_SIZE, with
\* Math.random() in [0, 1)
IsRandomCoord(c) == -halfWorldSize <= c /\ c < halfWorldSize

\* createGroup: PARTICLE_COUNT_PER_GROUP particles; here particle i is put
\* at a + (i - 1) * o for an anchor a and an offset o
createGroup(a, o) ==
    [i \in 1 .. PARTICLE_COUNT_PER_GROUP |->
        createParticle(<<a[1] + (i - 1) * o[1], a[2] + (i - 1) * o[2],
                         IF HasZ THEN a[3] + (i - 1) * o[3] ELSE 0>>)]

InWorld(group) ==
    \A i \in 1 .. Len(group) : \A k \in Axes : IsRandomCoord(group[i].pos[k])

-----------------------------------------------------------------------------
(* applyRule *)

\* the displacement taken from p2 to p1 the wrong way round
DeltaReversed(p1, p2) ==
    <<p2.pos[1] - p1.pos[1], p2.pos[2] - p1.pos[2],
      IF HasZ THEN p2.pos[3] - p1.pos[3] ELSE 0>>

\* dx, dy, dz
Delta(p1, p2) ==
    <<p1.pos[1] - p2.pos[1], p1.pos[2] - p2.pos[2],
      IF HasZ THEN p1.pos[3] - p2.pos[3] ELSE 0>>

\* distSq = dx * dx + dy * dy (+ dz * dz)
DistSq(d) ==
    d[1] * d[1] + d[2] * d[2] + (IF HasZ THEN d[3] * d[3] ELSE 0)

\* distSq > 0.001: distSq / Unit^2 > 1/1000; for an integer distSq this is
\* distSq > floor(Unit^2 / 1000)
AboveGuard(distSq) == distSq > (Unit * Unit) \div 1000

\* the cutoff test with <= for <
BelowCutoffInclusive(distSq) == distSq <= CutoffSq

\* distSq < R * R
BelowCutoff(distSq) == distSq < CutoffSq

InWindow(distSq) == AboveGuard(distSq) /\ BelowCutoff(distSq)

\* F * dx with F = g / dist: the quotient F is kept exact and the product is
\* rounded to a quantum
ForceTimes(g, dist, dk) == RoundDiv(g * dk, dist)

\* what one target particle p2 adds to (fx, fy, fz) of p1
Contribution(p1, p2, g) ==
    LET d == Delta(p1, p2)
        distSq == DistSq(d)
    IN  IF InWindow(distSq)
        THEN LET dist == Sqrt(distSq)
             IN  IF dist > 0
                 THEN <<ForceTimes(g, dist, d[1]), ForceTimes(g, dist, d[2]),
                        IF HasZ THEN ForceTimes(g, dist, d[3]) ELSE 0>>
                 ELSE Zero
        ELSE Zero

RECURSIVE NetForceFrom(_, _, _, _)
\* the inner loop over particles2 from index j on
NetForceFrom(p1, particles2, g, j) ==
    IF j > Len(particles2) THEN Zero
    ELSE LET c == Contribution(p1, particles2[j], g)
             rest == NetForceFrom(p1, particles2, g, j + 1)
         IN  <<c[1] + rest[1], c[2] + rest[2], c[3] + rest[3]>>

NetForce(p1, particles2, g) == NetForceFrom(p1, particles2, g, 1)

\* the position advanced by the undamped sum v + f
IntegrateUndamped(p1, f) ==
    LET v == <<Mul(p1.vel[1] + f[1], DAMPING_FACTOR),
               Mul(p1.vel[2] + f[2], DAMPING_FACTOR),
               IF HasZ THEN Mul(p1.vel[3] + f[3], DAMPING_FACTOR) ELSE 0>>
    IN  [pos |-> <<p1.pos[1] + p1.vel[1] + f[1], p1.pos[2] + p1.vel[2] + f[2],
                   p1.pos[3] + (IF HasZ THEN p1.vel[3] + f[3] ELSE 0)>>,
         vel |-> v]

\* v = (v + f) * DAMPING_FACTOR, then pos += v
Integrate(p1, f) ==
    LET v == <<Mul(p1.vel[1] + f[1], DAMPING_FACTOR),
               Mul(p1.vel[2] + f[2], DAMPING_FACTOR),
               IF HasZ THEN Mul(p1.vel[3] + f[3], DAMPING_FACTOR) ELSE 0>>
    IN  [pos |-> <<p1.pos[1] + v[1], p1.pos[2] + v[2], p1.pos[3] + v[3]>>,
         vel |-> v]

\* the wall test with < and > for <= and >=
AtWallStrict(x) == x < -halfWorldSize \/ x > halfWorldSize

\* the wall test of one coordinate
AtWall(x) == x <= -halfWorldSize \/ x >= halfWorldSize

\* no clamp at all
ClampNot(x) == x

\* clamps strictly inside the walls
ClampInside(x) == Max(1 - halfWorldSize, Min(halfWorldSize - 1, x))

Clamp(x) == Max(-halfWorldSize, Min(halfWorldSize, x))

\* one axis of the boundary conditions: <<coordinate, velocity component>>
BounceAxis(x, v) == IF AtWall(x) THEN <<Clamp(x), -v>> ELSE <<x, v>>

\* the boundary conditions, one axis at a time
Boundary(p) ==
    LET bx == BounceAxis(p.pos[1], p.vel[1])
        by == BounceAxis(p.pos[2], p.vel[2])
        bz == IF HasZ THEN BounceAxis(p.pos[3], p.vel[3]) ELSE <<0, 0>>
    IN  [pos |-> <<bx[1], by[1], bz[1]>>, vel |-> <<bx[2], by[2], bz[2]>>]

\* one pass of the outer loop: particle i of the source group is rewritten
\* in place, reading the target group as it is now
UpdateParticle(P, src, tgt, g, i) ==
    [P EXCEPT ![src][i] =
        Boundary(Integrate(P[src][i], NetForce(P[src][i], P[tgt], g)))]

RECURSIVE ApplyRuleFrom(_, _, _, _, _)
ApplyRuleFrom(P, src, tgt, g, i) ==
    IF i > Len(P[src]) THEN P
    ELSE ApplyRuleFrom(UpdateParticle(P, src, tgt, g, i), src, tgt, g, i + 1)

\* applyRule reading a snapshot of the target group taken when the call starts
applyRuleSnapshot(P, src, tgt, g) ==
    [P EXCEPT ![src] =
        [i \in 1 .. Len(P[src]) |->
            Boundary(Integrate(P[src][i], NetForce(P[src][i], P[tgt], g)))]]

\* applyRule(particles1, particles2, g), the groups given by name
applyRule(P, src, tgt, g) == ApplyRuleFrom(P, src, tgt, g, 1)

-----------------------------------------------------------------------------
(* animate *)

\* the calls with the first two in the other order
RulesSwapped ==
    << [src |-> "yellow", tgt |-> "red",    g |-> Fixed(15, 100)],
       [src |-> "red",    tgt |-> "red",    g |-> Fixed(1, 10)],
       [src |-> "green",  tgt |-> "green",  g |-> Fixed(-7, 10)],
       [src |-> "green",  tgt |-> "red",    g |-> Fixed(-2, 10)],
       [src |-> "red",    tgt |-> "green",  g |-> Fixed(-1, 10)],
       [src |-> "yellow", tgt |-> "yellow", g |-> Fixed(1, 10)] >>

\* the calls with yellow, not green, the target of the fifth
RulesYellowTarget ==
    << [src |-> "red",    tgt |-> "red",    g |-> Fixed(1, 10)],
       [src |-> "yellow", tgt |-> "red",    g |-> Fixed(15, 100)],
       [src |-> "green",  tgt |-> "green",  g |-> Fixed(-7, 10)],
       [src |-> "green",  tgt |-> "red",    g |-> Fixed(-2, 10)],
       [src |-> "red",    tgt |-> "yellow", g |-> Fixed(-1, 10)],
       [src |-> "yellow", tgt |-> "yellow", g |-> Fixed(1, 10)] >>

\* the six applyRule calls of animate, in order
Rules ==
    << [src |-> "red",    tgt |-> "red",    g |-> Fixed(1, 10)],
       [src |-> "yellow", tgt |-> "red",    g |-> Fixed(15, 100)],
       [src |-> "green",  tgt |-> "green",  g |-> Fixed(-7, 10)],
       [src |-> "green",  tgt |-> "red",    g |-> Fixed(-2, 10)],
       [src |-> "red",    tgt |-> "green",  g |-> Fixed(-1, 10)],
       [src |-> "yellow", tgt |-> "yellow", g |-> Fixed(1, 10)] >>

\* the record the history keeps of one applyRule call
Call(P, src, tgt, g) ==
    [src |-> src, tgt |-> tgt, g |-> g, before |-> P,
     after |-> applyRule(P, src, tgt, g)]

RECURSIVE RunRules(_, _)
\* the calls of animate from rule k on, each starting where the last ended
RunRules(P, k) ==
    IF k > Len(Rules) THEN << >>
    ELSE LET c == Call(P, Rules[k].src, Rules[k].tgt, Rules[k].g)
         IN  <<c>> \o RunRules(c.after, k + 1)

\* updateGeometryAttributes: x, y, z of every particle in creation order
\* (yellow, red, green); the 2-D script writes 0 for z.  The buffer is a
\* Float32Array: its rounding (2^-24 relative) is below one quantum.
GroupPositions(group) ==
    [i \in 1 .. Len(group) |->
        <<group[i].pos[1], group[i].pos[2],
          IF HasZ THEN group[i].pos[3] ELSE 0>>]

Geometry(P) ==
    GroupPositions(P["yellow"]) \o GroupPositions(P["red"]) \o GroupPositions(P["green"])

\* one tick
Animate ==
    /\ steps < MaxTicks
    /\ LET log == RunRules(particleGroups, 1)
       IN  /\ calls' = log
           /\ particleGroups' = log[Len(log)].after
           /\ positionAttribute' = Geometry(log[Len(log)].after)
           /\ zeroOnly' = (zeroOnly /\ \A k \in 1 .. Len(log) : log[k].g = 0)
    /\ steps' = steps + 1
    /\ UNCHANGED <<variant, initial>>

-----------------------------------------------------------------------------
(* Initial states: init() *)

U(n) == n * Unit

\* a set of groups createGroup can make: anchors A, offsets O
Layouts(A, O) == {g \in {createGroup(a, o) : a \in A, o \in O} : InWorld(g)}

Origin == <<0, 0, 0>>

East == <<U(10), 0, 0>>

South == <<0, -U(240), 0>>

\* a fifth of a unit from Origin, nearer than the step a coefficient of 1 makes
Beside == <<8, 0, 0>>

\* two quanta inside the lower x wall, and exactly on it
NearWestWall == <<2 - halfWorldSize, 0, 0>>

OnWestWall == <<-halfWorldSize, 0, 0>>

\* the largest coordinate randomCoord can return, one quantum inside the
\* upper x wall
NearEastWall == <<halfWorldSize - 1, 0, 0>>

\* two quanta inside the cutoff radius around Origin
NearCutoff == <<U(Cutoff) - 2, 0, 0>>

\* offsets between the particles of a group: one quantum (below the 0.001
\* guard), one quantum inside the cutoff, exactly the cutoff, ten units
\* towards the lower x wall, far apart
Tiny == <<1, 0, 0>>

JustInside == <<U(Cutoff) - 1, 0, 0>>

AtCutoff == <<U(Cutoff), 0, 0>>

Close == <<-U(10), 0, 0>>

Far == <<0, U(120), 0>>

\* init(): the three createGroup calls, then updateGeometryAttributes
InitWith(Y, R, G) ==
    /\ variant \in Variants
    /\ \E y \in Y, r \in R, g \in G :
          particleGroups = [n \in GroupNames |->
              IF n = "yellow" THEN y ELSE IF n = "red" THEN r ELSE g]
    /\ positionAttribute = Geometry(particleGroups)
    /\ steps = 0
    /\ calls = << >>
    /\ initial = particleGroups
    /\ zeroOnly = TRUE

Init ==
    InitWith(Layouts({Origin, South}, {JustInside, Far}),
             Layouts({Origin, NearWestWall, NearCutoff, NearEastWall},
                     {Tiny, JustInside, AtCutoff, Close}),
             Layouts({East, South}, {Tiny, JustInside}))

Next == Animate

Spec == Init /\ [][Next]_vars

-----------------------------------------------------------------------------
(* applyRule called on its own, with any coefficient *)

\* the (source, target) pairs animate passes to applyRule
RulePairs == {<<Rules[k].src, Rules[k].tgt>> : k \in 1 .. Len(Rules)}

\* coefficients tried: -1, 0, 1
Coefficients == {Fixed(-1, 1), Fixed(0, 1), Fixed(1, 1)}

ApplyRuleCall(src, tgt, g) ==
    /\ steps < MaxCalls
    /\ LET c == Call(particleGroups, src, tgt, g)
       IN  /\ calls' = <<c>>
           /\ particleGroups' = c.after
    /\ zeroOnly' = (zeroOnly /\ g = 0)
    /\ steps' = steps + 1
    /\ UNCHANGED <<variant, positionAttribute, initial>>

InitRule ==
    InitWith(Layouts({South}, {Far}),
             Layouts({Origin, OnWestWall, NearEastWall}, {JustInside, Close, Far}),
             Layouts({East, Beside}, {Tiny, Far}))

NextRule ==
    \E pair \in RulePairs, g \in Coefficients : ApplyRuleCall(pair[1], pair[2], g)

SpecRule == InitRule /\ [][NextRule]_vars

-----------------------------------------------------------------------------
(* What the claims are stated with *)

\* the particles of group n
Indices(P, n) == 1 .. Len(P[n])

\* The groups as the outer loop of call c finds them when it reaches source
\* index i: the source particles below i already rewritten, the rest as the
\* call found them.
SeenAt(c, i) ==
    [c.before EXCEPT ![c.src] =
        [j \in 1 .. Len(c.before[c.src]) |->
            IF j < i THEN c.after[c.src][j] ELSE c.before[c.src][j]]]

\* the net force call c computes for its source particle i
ForceOn(c, i) == NetForce(c.before[c.src][i], SeenAt(c, i)[c.tgt], c.g)

\* source particle i of call c after the velocity and position update,
\* before the boundary conditions
Moved(c, i) == Integrate(c.before[c.src][i], ForceOn(c, i))

\* 0.001 < s < R^2 for a squared distance s in quanta^2, written out
Between(s) ==
    /\ s > Unit * Unit \/ 1000 * s > Unit * Unit
    /\ s < (Cutoff * Unit) * (Cutoff * Unit)

\* the target particles inside the window of source particle i of call c
Neighbours(c, i) ==
    {j \in Indices(c.before, c.tgt) :
        Between(DistSq(Delta(c.before[c.src][i], SeenAt(c, i)[c.tgt][j])))}

InBox(P) ==
    \A n \in GroupNames : \A i \in Indices(P, n) : \A k \in Axes :
        -halfWorldSize <= P[n][i].pos[k] /\ P[n][i].pos[k] <= halfWorldSize

-----------------------------------------------------------------------------
(* C1 *)

\* C1: after every tick, and after every applyRule call inside it, every
\* coordinate of every particle lies in [-H, H].
C1_InsideWorld ==
    /\ InBox(particleGroups)
    /\ \A k \in 1 .. Len(calls) : InBox(calls[k].after)

\* a particle was moved past a wall by an applyRule call and sits on it
C1_Witness ==
    \E k \in 1 .. Len(calls) : \E i \in Indices(calls[k].before, calls[k].src) :
        /\ Abs(Moved(calls[k], i).pos[1]) > halfWorldSize
        /\ Abs(calls[k].after[calls[k].src][i].pos[1]) = halfWorldSize

-----------------------------------------------------------------------------
(* C2 *)

\* C2: while every applyRule call so far had g = 0 (and the particles started
\* at rest, as createGroup makes them), every particle is where it started.
C2_ZeroCoefficient ==
    zeroOnly =>
        \A n \in GroupNames : \A i \in Indices(particleGroups, n) :
            particleGroups[n][i].pos = initial[n][i].pos

\* two calls with g = 0 were made, the last with a source particle that
\* started exactly on the wall -H and has a target particle in its window
C2_Witness ==
    /\ zeroOnly
    /\ steps >= 2
    /\ \E i \in Indices(calls[1].before, calls[1].src) :
          /\ initial[calls[1].src][i].pos[1] = -halfWorldSize
          /\ Neighbours(calls[1], i) # {}

-----------------------------------------------------------------------------
(* C3 *)

\* C3: in a call with g # 0, target particle j adds something other than
\* zero to the net force on source particle i exactly when their squared
\* distance s has 0.001 < s < R^2, both bounds strict.
C3_Window ==
    \A k \in 1 .. Len(calls) :
        calls[k].g # 0 =>
            \A i \in Indices(calls[k].before, calls[k].src) :
            \A j \in Indices(calls[k].before, calls[k].tgt) :
                LET p1 == calls[k].before[calls[k].src][i]
                    p2 == SeenAt(calls[k], i)[calls[k].tgt][j]
                IN  (Contribution(p1, p2, calls[k].g) # Zero)
                        <=> Between(DistSq(Delta(p1, p2)))

\* the squared distance of source particle i and target particle j of call k
C3_Dist(k, i, j) ==
    DistSq(Delta(calls[k].before[calls[k].src][i],
                 SeenAt(calls[k], i)[calls[k].tgt][j]))

\* one tick met all four cases: s = 0 (a particle paired with itself),
\* 0 < s <= 0.001, s = R^2, and s one quantum of distance below R^2
C3_Witness ==
    /\ \E k \in 1 .. Len(calls) : calls[k].g # 0 /\ calls[k].src = calls[k].tgt
    /\ \E k \in 1 .. Len(calls) : \E i, j \in 1 .. PARTICLE_COUNT_PER_GROUP :
          calls[k].g # 0 /\ C3_Dist(k, i, j) = 1
    /\ \E k \in 1 .. Len(calls) : \E i, j \in 1 .. PARTICLE_COUNT_PER_GROUP :
          calls[k].g # 0 /\ C3_Dist(k, i, j) = U(Cutoff) * U(Cutoff)
    /\ \E k \in 1 .. Len(calls) : \E i, j \in 1 .. PARTICLE_COUNT_PER_GROUP :
          /\ calls[k].g # 0
          /\ C3_Dist(k, i, j) = (U(Cutoff) - 1) * (U(Cutoff) - 1)
          /\ Contribution(calls[k].before[calls[k].src][i],
                          SeenAt(calls[k], i)[calls[k].tgt][j], calls[k].g) # Zero

-----------------------------------------------------------------------------
(* C4 *)

\* x * 0.5 to the nearest quantum
Half(x) == RoundDiv(x, 2)

\* v' = (v + f) * 0.5 for velocity v and net force f
C4_Velocity(v, f) ==
    <<Half(v[1] + f[1]), Half(v[2] + f[2]), IF HasZ THEN Half(v[3] + f[3]) ELSE 0>>

C4_Plus(a, b) == <<a[1] + b[1], a[2] + b[2], a[3] + b[3]>>

C4_StrictlyInside(pos) ==
    \A k \in Axes : -halfWorldSize < pos[k] /\ pos[k] < halfWorldSize

\* C4: a source particle that stays strictly inside the walls ends an
\* applyRule call with v' = (v + f) * 0.5 and pos' = pos + v'; and with
\* g = 1, A at rest at the origin and B at (10, 0) its only target in the
\* window, A ends with velocity (-0.5, 0) and position (-0.5, 0).
C4_Integration ==
    \A k \in 1 .. Len(calls) : \A i \in Indices(calls[k].before, calls[k].src) :
        LET p == calls[k].before[calls[k].src][i]
            q == calls[k].after[calls[k].src][i]
            v == C4_Velocity(p.vel, ForceOn(calls[k], i))
        IN  /\ C4_StrictlyInside(C4_Plus(p.pos, v)) =>
                  q.vel = v /\ q.pos = C4_Plus(p.pos, v)
            /\ ( /\ calls[k].g = Fixed(1, 1)
                 /\ p = [pos |-> <<0, 0, 0>>, vel |-> <<0, 0, 0>>]
                 /\ \E j \in Indices(calls[k].before, calls[k].tgt) :
                       /\ Neighbours(calls[k], i) = {j}
                       /\ SeenAt(calls[k], i)[calls[k].tgt][j].pos = <<U(10), 0, 0>> )
                => q = [pos |-> <<-Fixed(1, 2), 0, 0>>, vel |-> <<-Fixed(1, 2), 0, 0>>]

\* the scenario happened: g = 1, A at rest at the origin, B at (10, 0)
C4_Witness ==
    /\ Len(calls) = 1
    /\ calls[1].g = Fixed(1, 1)
    /\ calls[1].src = "red" /\ calls[1].tgt = "green"
    /\ calls[1].before["red"][1] = [pos |-> <<0, 0, 0>>, vel |-> <<0, 0, 0>>]
    /\ calls[1].before["green"][1].pos = <<U(10), 0, 0>>
    /\ Neighbours(calls[1], 1) = {1}
    /\ particleGroups["red"][1].pos[1] = -Fixed(1, 2)

-----------------------------------------------------------------------------
(* C5 *)

\* C5: positions are written in place.  Each call starts from what the call
\* before it left, changes only its source group, and leaves source
\* particle i as computed from the targets as they were when the loop
\* reached i: source particles below i already moved, the others not yet.
C5_InPlace ==
    /\ Len(calls) > 0 => particleGroups = calls[Len(calls)].after
    /\ \A k \in 1 .. Len(calls) :
          /\ k > 1 => calls[k].before = calls[k - 1].after
          /\ \A n \in GroupNames \ {calls[k].src} :
                calls[k].after[n] = calls[k].before[n]
          /\ \A i \in Indices(calls[k].before, calls[k].src) :
                calls[k].after[calls[k].src][i] = Boundary(Moved(calls[k], i))

RECURSIVE C5_Buffered(_, _, _)
\* a tick from rule k on in which every force is computed from the
\* positions P0 of the start of the tick
C5_Buffered(P, P0, k) ==
    IF k > Len(Rules) THEN P
    ELSE C5_Buffered(
            [P EXCEPT ![Rules[k].src] =
                [i \in 1 .. Len(P[Rules[k].src]) |->
                    Boundary(Integrate(P[Rules[k].src][i],
                        NetForce(P0[Rules[k].src][i], P0[Rules[k].tgt], Rules[k].g)))]],
            P0, k + 1)

\* a tick in which a same-group call differs from its snapshot version, a
\* later call computes a force that differs from the one the positions of
\* the start of the tick give, and the tick's result differs from the
\* double-buffered tick's
C5_Witness ==
    /\ steps >= 1
    /\ \E k \in 1 .. Len(calls) :
          /\ calls[k].src = calls[k].tgt
          /\ calls[k].after #
                applyRuleSnapshot(calls[k].before, calls[k].src, calls[k].tgt, calls[k].g)
    /\ \E k \in 2 .. Len(calls) : \E i \in Indices(calls[k].before, calls[k].src) :
          ForceOn(calls[k], i) #
              NetForce(calls[1].before[calls[k].src][i],
                       calls[1].before[calls[k].tgt], calls[k].g)
    /\ particleGroups # C5_Buffered(calls[1].before, calls[1].before, 1)

-----------------------------------------------------------------------------
(* C6 *)

\* source particle i of call c is at rest, has exactly one target particle
\* in its window and does not reach a wall
C6_Case(c, i) ==
    /\ c.before[c.src][i].vel = Zero
    /\ Cardinality(Neighbours(c, i)) = 1
    /\ C4_StrictlyInside(Moved(c, i).pos)

C6_Target(c, i) == SeenAt(c, i)[c.tgt][CHOOSE j \in Neighbours(c, i) : TRUE]

\* squared distance to the target before and after the call
C6_Before(c, i) == DistSq(Delta(c.before[c.src][i], C6_Target(c, i)))

C6_After(c, i) == DistSq(Delta(c.after[c.src][i], C6_Target(c, i)))

\* C6 as claimed: positive g attracts (the source ends closer), negative g
\* repels (the source ends farther).
C6_PositiveAttracts ==
    \A k \in 1 .. Len(calls) : \A i \in Indices(calls[k].before, calls[k].src) :
        C6_Case(calls[k], i) =>
            /\ calls[k].g > 0 => C6_After(calls[k], i) < C6_Before(calls[k], i)
            /\ calls[k].g < 0 => C6_After(calls[k], i) > C6_Before(calls[k], i)

\* C6 amended: positive g repels (the source ends farther from the target);
\* negative g attracts (the source ends closer) when the distance exceeds
\* |g| / 4, the step |g| / 2 otherwise carrying it past the target.
C6_PositiveRepels ==
    \A k \in 1 .. Len(calls) : \A i \in Indices(calls[k].before, calls[k].src) :
        C6_Case(calls[k], i) =>
            /\ calls[k].g > 0 => C6_After(calls[k], i) > C6_Before(calls[k], i)
            /\ (calls[k].g < 0 /\ 16 * C6_Before(calls[k], i) > calls[k].g * calls[k].g)
                  => C6_After(calls[k], i) < C6_Before(calls[k], i)

\* a call with g < 0 brought one source particle at rest closer to its one
\* target, and carried another, nearer to its target than |g| / 4, past it
C6_Witness ==
    \E k \in 1 .. Len(calls) :
        /\ calls[k].g < 0
        /\ \E i \in Indices(calls[k].before, calls[k].src) :
              /\ C6_Case(calls[k], i)
              /\ C6_After(calls[k], i) < C6_Before(calls[k], i)
        /\ \E i \in Indices(calls[k].before, calls[k].src) :
              /\ C6_Case(calls[k], i)
              /\ 16 * C6_Before(calls[k], i) <= calls[k].g * calls[k].g
              /\ C6_After(calls[k], i) >= C6_Before(calls[k], i)

-----------------------------------------------------------------------------
(* C7 *)

C7_NormSq(f) == f[1] * f[1] + f[2] * f[2] + f[3] * f[3]

\* what target particle j adds to the net force on source particle i of call c
C7_Force(c, i, j) == Contribution(c.before[c.src][i], SeenAt(c, i)[c.tgt][j], c.g)

C7_DistSq(c, i, j) == DistSq(Delta(c.before[c.src][i], SeenAt(c, i)[c.tgt][j]))

\* C7: of two target particles inside the window, the nearer one contributes
\* a force vector of strictly greater magnitude.
C7_NearerStronger ==
    \A k \in 1 .. Len(calls) : \A i \in Indices(calls[k].before, calls[k].src) :
        \A j1, j2 \in Neighbours(calls[k], i) :
            (calls[k].g # 0 /\ C7_DistSq(calls[k], i, j1) < C7_DistSq(calls[k], i, j2))
                => C7_NormSq(C7_Force(calls[k], i, j1)) > C7_NormSq(C7_Force(calls[k], i, j2))

-----------------------------------------------------------------------------
(* C8 *)

\* B: the largest |g| * (size of the target group) over the calls of animate
C8_B ==
    LET S == {Abs(Rules[k].g) * Len(particleGroups[Rules[k].tgt]) : k \in 1 .. Len(Rules)}
    IN  CHOOSE b \in S : \A x \in S : x <= b

C8_Slow(P) ==
    \A n \in GroupNames : \A i \in Indices(P, n) : \A k \in Axes :
        Abs(P[n][i].vel[k]) <= C8_B

\* C8: after every tick, and after every applyRule call inside it, no
\* velocity component exceeds B in magnitude; and the boundary conditions
\* leave the magnitude of every velocity component as the update made it.
C8_VelocityBounded ==
    /\ C8_Slow(particleGroups)
    /\ \A k \in 1 .. Len(calls) :
          /\ C8_Slow(calls[k].after)
          /\ \A i \in Indices(calls[k].before, calls[k].src) : \A a \in Axes :
                Abs(calls[k].after[calls[k].src][i].vel[a]) = Abs(Moved(calls[k], i).vel[a])

\* in the second tick a particle moving at a quarter of B or more, and a
\* particle reflected by a wall with a velocity other than 0
C8_Witness ==
    /\ steps >= 2
    /\ \E k \in 1 .. Len(calls) : \E n \in GroupNames :
          \E i \in Indices(calls[k].after, n) :
              4 * Abs(calls[k].after[n][i].vel[1]) >= C8_B
    /\ \E k \in 1 .. Len(calls) : \E i \in Indices(calls[k].before, calls[k].src) :
          /\ AtWall(Moved(calls[k], i).pos[1])
          /\ Moved(calls[k], i).vel[1] # 0

-----------------------------------------------------------------------------
(* C9 *)

\* C9: on each axis, when the coordinate after the position update is <= -H
\* or >= H the velocity component is negated and the coordinate put on that
\* wall; otherwise the boundary conditions change neither.
C9_Boundary ==
    \A k \in 1 .. Len(calls) : \A i \in Indices(calls[k].before, calls[k].src) :
        \A a \in Axes :
            LET m == Moved(calls[k], i)
                q == calls[k].after[calls[k].src][i]
            IN  IF m.pos[a] <= -halfWorldSize \/ m.pos[a] >= halfWorldSize
                THEN /\ q.vel[a] = -m.vel[a]
                     /\ q.pos[a] = (IF m.pos[a] <= -halfWorldSize
                                     THEN -halfWorldSize ELSE halfWorldSize)
                ELSE /\ q.vel[a] = m.vel[a]
                     /\ q.pos[a] = m.pos[a]

\* a particle landed exactly on the wall -H with a velocity other than 0, which
\* was negated, while its y coordinate stayed strictly inside
C9_Witness ==
    \E k \in 1 .. Len(calls) : \E i \in Indices(calls[k].before, calls[k].src) :
        /\ Moved(calls[k], i).pos[1] = -halfWorldSize
        /\ Moved(calls[k], i).vel[1] # 0
        /\ calls[k].after[calls[k].src][i].vel[1] = -Moved(calls[k], i).vel[1]
        /\ ~AtWall(Moved(calls[k], i).pos[2])

-----------------------------------------------------------------------------
(* C10 *)

\* particle i of group n had no target particle in its window in any call
\* of the last tick
C10_Alone(n, i) ==
    \A k \in 1 .. Len(calls) : calls[k].src = n => Neighbours(calls[k], i) = {}

C10_Halved(v) == <<Half(v[1]), Half(v[2]), Half(v[3])>>

\* C10: a tick is the six calls (red,red,0.1), (yellow,red,0.15),
\* (green,green,-0.7), (green,red,-0.2), (red,green,-0.1),
\* (yellow,yellow,0.1) in this order; each group is the source of exactly
\* two of them; and a particle with no target in its window ends the tick
\* with every velocity component halved twice in magnitude (a quarter, at the
\* resolution of the model), having moved by the halved and then by the
\* quartered velocity when it met no wall.
C10_Tick ==
    steps >= 1 =>
        /\ [k \in 1 .. Len(calls) |-> <<calls[k].src, calls[k].tgt, calls[k].g>>]
              = << <<"red", "red", Fixed(1, 10)>>,
                   <<"yellow", "red", Fixed(15, 100)>>,
                   <<"green", "green", Fixed(-7, 10)>>,
                   <<"green", "red", Fixed(-2, 10)>>,
                   <<"red", "green", Fixed(-1, 10)>>,
                   <<"yellow", "yellow", Fixed(1, 10)>> >>
        /\ \A n \in GroupNames :
              Cardinality({k \in 1 .. Len(calls) : calls[k].src = n}) = 2
        /\ \A n \in GroupNames : \A i \in Indices(particleGroups, n) :
              C10_Alone(n, i) =>
                  LET p0 == calls[1].before[n][i]
                      v1 == C10_Halved(p0.vel)
                      v2 == C10_Halved(v1)
                      p1 == C4_Plus(p0.pos, v1)
                      p2 == C4_Plus(p1, v2)
                  IN  /\ \A a \in Axes :
                            Abs(particleGroups[n][i].vel[a]) = Half(Half(Abs(p0.vel[a])))
                      /\ (C4_StrictlyInside(p1) /\ C4_StrictlyInside(p2))
                            => particleGroups[n][i] = [pos |-> p2, vel |-> v2]

\* a particle went through a whole tick with no target in its window and
\* still moves at the end of it
C10_Witness ==
    /\ steps >= 2
    /\ \E n \in GroupNames : \E i \in Indices(particleGroups, n) :
          /\ C10_Alone(n, i)
          /\ particleGroups[n][i].vel[1] # 0

-----------------------------------------------------------------------------
(* C11 *)

\* the yellow groups a second run may start with
C11_Yellows == Layouts({Origin, East, South}, {Tiny, Far})

RECURSIVE C11_Run(_, _)
\* the particles after n ticks of animate from the particles P
C11_Run(P, n) ==
    IF n = 0 THEN P
    ELSE LET log == RunRules(P, 1)
         IN  C11_Run(log[Len(log)].after, n - 1)

\* the run that started as this one did, but with the yellow group Y
C11_Other(Y) == C11_Run([initial EXCEPT !["yellow"] = Y], steps)

\* group n has a particle with a particle of group m in its window in P
C11_InRange(P, n, m) ==
    \E i \in Indices(P, n) : \E j \in Indices(P, m) :
        InWindow(DistSq(Delta(P[n][i], P[m][j])))

\* C11: yellow particles never influence red or green ones.  An applyRule
\* call changes only its source group; yellow is the target only of the call
\* whose source is yellow; and a run that started with the same red and green
\* particles but another yellow group has, after the same number of ticks,
\* the same red and green positions and velocities.
C11_YellowNonInterference ==
    /\ \A k \in 1 .. Len(calls) :
          /\ \A n \in GroupNames :
                calls[k].after[n] # calls[k].before[n] => n = calls[k].src
          /\ calls[k].tgt = "yellow" => calls[k].src = "yellow"
    /\ \A Y \in C11_Yellows :
          /\ C11_Other(Y)["red"] = particleGroups["red"]
          /\ C11_Other(Y)["green"] = particleGroups["green"]

\* after two ticks: the run started with yellow in range of a red particle,
\* red and green have moved, and a second run from another yellow group, also
\* in range of red, ends with other yellow particles
C11_Witness ==
    /\ steps >= 2
    /\ C11_InRange(initial, "red", "yellow")
    /\ particleGroups["red"] # initial["red"]
    /\ particleGroups["green"] # initial["green"]
    /\ \E Y \in C11_Yellows :
          /\ Y # initial["yellow"]
          /\ C11_InRange([initial EXCEPT !["yellow"] = Y], "red", "yellow")
          /\ C11_Other(Y)["yellow"] # particleGroups["yellow"]

====
